---- MODULE Spec2Model ----
(***************************************************************************)
(* The traffic plugin's query handler (plugin/traffic/traffic.go):         *)
(* Traffic.ServeDNS and Traffic.serveEndpoint, run against an assignment   *)
(* provider (the xds client) whose content may change between two calls.   *)
(*                                                                         *)
(* Strings are sequences of one-character strings, so that the string      *)
(* functions the handler uses (HasSuffix, HasPrefix, ToLower, Index, Atoi, *)
(* Sprintf, TrimZone, SplitDomainName) are computed and not assumed.       *)
(* The alphabet has no backslash: DNS escapes are outside the model.       *)
(***************************************************************************)
EXTENDS Integers, Sequences, FiniteSets, TLC

(* ------------------------------ bounds --------------------------------- *)

\* longest endpoint list the provider holds for one cluster
MaxEndpoints == 2

\* the wall clock read by soa() takes the values 0..MaxTime
MaxTime == 1

(* ------------------------- strings as sequences ------------------------ *)

Dot == <<".">>

Upper == <<"A","B","C","D","E","F","G","H","I","J","K","L","M",
           "N","O","P","Q","R","S","T","U","V","W","X","Y","Z">>

Lower == <<"a","b","c","d","e","f","g","h","i","j","k","l","m",
           "n","o","p","q","r","s","t","u","v","w","x","y","z">>

Digits == <<"0","1","2","3","4","5","6","7","8","9">>

\* s[from:to] of Go, 0-based, to exclusive
Slice(s, from, to) == SubSeq(s, from + 1, to)

LowerChar(c) ==
    IF \E k \in 1..26 : Upper[k] = c
    THEN Lower[CHOOSE k \in 1..26 : Upper[k] = c]
    ELSE c

\* strings.ToLower
ToLower(s) == [k \in 1..Len(s) |-> LowerChar(s[k])]

\* strings.HasPrefix
HasPrefix(s, p) == Len(s) >= Len(p) /\ SubSeq(s, 1, Len(p)) = p

\* strings.HasSuffix: a raw string suffix, no label boundary involved
HasSuffix(s, p) == Len(s) >= Len(p) /\ SubSeq(s, Len(s) - Len(p) + 1, Len(s)) = p

\* strings.Index(s, c) for a one-character c: 0-based, -1 when absent
Index(s, c) ==
    IF \E k \in 1..Len(s) : s[k] = c
    THEN (CHOOSE k \in 1..Len(s) : s[k] = c /\ \A j \in 1..(k-1) : s[j] # c) - 1
    ELSE -1

IsDigit(c) == \E k \in 1..10 : Digits[k] = c

DigitVal(c) == (CHOOSE k \in 1..10 : Digits[k] = c) - 1

RECURSIVE DigitsVal(_)
DigitsVal(s) ==
    IF s = <<>> THEN 0
    ELSE 10 * DigitsVal(SubSeq(s, 1, Len(s) - 1)) + DigitVal(s[Len(s)])

\* strconv.Atoi: an optional sign, then one or more decimal digits; the
\* result is [err, val], err set on a syntax error.  Its range error needs a
\* suffix of 19 digits or more; the suffixes of the model are shorter.
Atoi(s) ==
    LET signed == Len(s) > 0 /\ s[1] \in {"+", "-"}
        body   == IF signed THEN Tail(s) ELSE s
    IN  IF body = <<>> \/ \E k \in 1..Len(body) : ~IsDigit(body[k])
        THEN [err |-> TRUE, val |-> 0]
        ELSE IF signed /\ s[1] = "-"
             THEN [err |-> FALSE, val |-> 0 - DigitsVal(body)]
             ELSE [err |-> FALSE, val |-> DigitsVal(body)]

\* the %d verb of fmt.Sprintf
RECURSIVE Itoa(_)
Itoa(n) ==
    IF n < 0 THEN <<"-">> \o Itoa(0 - n)
    ELSE IF n < 10 THEN <<Digits[n + 1]>>
    ELSE Itoa(n \div 10) \o <<Digits[(n % 10) + 1]>>

(* ------------------------------ DNS names ------------------------------ *)

\* dns.CountLabel: the number of labels of a name, 0 for the root
CountLabel(s) ==
    IF s = Dot THEN 0
    ELSE 1 + Cardinality({k \in 1..(Len(s) - 1) : s[k] = "."})

\* the loop of dns.PrevLabel: l is the 0-based scan position, n the labels left
RECURSIVE PrevLabelScan(_, _, _)
PrevLabelScan(s, l, n) ==
    IF l < 0 \/ n <= 0 THEN [i |-> 0, start |-> n > 1]
    ELSE IF s[l + 1] # "." THEN PrevLabelScan(s, l - 1, n)
    ELSE IF n - 1 = 0 THEN [i |-> l + 1, start |-> FALSE]
    ELSE PrevLabelScan(s, l - 1, n - 1)

\* dns.PrevLabel(s, n): the index where the n-th label from the right starts
PrevLabel(s, n) ==
    IF s = <<>> THEN [i |-> 0, start |-> TRUE]
    ELSE IF n = 0 THEN [i |-> Len(s), start |-> FALSE]
    ELSE PrevLabelScan(s, IF s[Len(s)] = "." THEN Len(s) - 2 ELSE Len(s) - 1, n)

\* dnsutil.TrimZone(q, z): q without the labels of z and without the dot
\* before them; the empty string when q has no label left of them (the
\* error is discarded at the call site)
TrimZone(q, z) ==
    LET p == PrevLabel(q, CountLabel(z))
    IN  IF p.start \/ p.i - 1 < 0 THEN <<>> ELSE Slice(q, 0, p.i - 1)

\* dns.SplitDomainName: the labels of a name, none for "" and for "."
RECURSIVE SplitDomainName(_)
SplitDomainName(s) ==
    IF s = <<>> \/ s = Dot THEN <<>>
    ELSE LET i == Index(s, ".")
         IN  IF i = -1 THEN <<s>>
             ELSE IF i = Len(s) - 1 THEN <<Slice(s, 0, i)>>
             ELSE <<Slice(s, 0, i)>> \o SplitDomainName(Slice(s, i + 1, Len(s)))

\* dnsutil.Join("x", z): the labels joined by dots, fully qualified
Join(l, z) ==
    IF z = Dot THEN l \o Dot
    ELSE IF z # <<>> /\ z[Len(z)] = "." THEN l \o Dot \o z
    ELSE l \o Dot \o z \o Dot

\* request.Request.Name(): the question name, lower-cased
Name(q) == ToLower(q)

(* --------------------------- literals of the code ---------------------- *)

s_tcp == <<"_","t","c","p">>

s_grpclb == <<"_","g","r","p","c","l","b">>

s_endpoint == <<"e","n","d","p","o","i","n","t","-">>

s_ns == <<"n","s">>

s_coredns == <<"c","o","r","e","d","n","s">>

RcodeSuccess == 0

RcodeNameError == 3

TypeA == 1

TypeSOA == 6

TypeTXT == 16

TypeAAAA == 28

TypeSRV == 33

ClassINET == 1

\* the nil *xds.SocketAddress
Nil == [addr |-> [fam |-> 0, ip |-> ""], port |-> 0]

(* ------------------------------ configuration -------------------------- *)

s_org == <<"o","r","g",".">>

s_a_org == <<"a",".">> \o s_org

s_web == <<"w","e","b">>

s_db == <<"d","b">>

s_foo == <<"f","o","o">>

s_mgmt == <<"m","g","m","t">>

\* t.mgmt: the management cluster
mgmt == s_mgmt

\* the values t.origins is configured with
OriginConfigs == { <<s_org>>, <<s_a_org, s_org>>, <<s_org, s_a_org>> }

(* --------------------------- the provider (xds.Client) ----------------- *)

\* *xds.SocketAddress values: Address() and Port(); To4() is nil exactly
\* for the family-6 addresses
Endpoints ==
    { [addr |-> [fam |-> 4, ip |-> "10.0.0.1"], port |-> 8080],
      [addr |-> [fam |-> 6, ip |-> "2001:db8::1"], port |-> 9090] }

To4IsNil(addr) == addr.fam # 4

\* what Select(cluster, health) may return: (nil, false) for a cluster the
\* provider does not know, (nil, true) for a known cluster without a
\* selectable endpoint, (endpoint, true) otherwise.  The provider's content
\* is free to change between any two calls, so every call draws anew.
SelectResults ==
    { [sa |-> Nil, ok |-> FALSE], [sa |-> Nil, ok |-> TRUE] }
    \cup { [sa |-> e, ok |-> TRUE] : e \in Endpoints }

\* no cluster has the empty name: Select("") finds nothing
SelectResultsFor(c) ==
    IF c = <<>> THEN { [sa |-> Nil, ok |-> FALSE] } ELSE SelectResults

\* what All(cluster, health) may return (its boolean is discarded at both
\* call sites): any list of endpoints, the empty one included
AllResults ==
    UNION { [1..n -> Endpoints] : n \in 0..MaxEndpoints }

(* ------------------------------- queries ------------------------------- *)

Times == 0..MaxTime

QTypes == { TypeA, TypeAAAA, TypeSRV, TypeTXT }

\* the suffixes after "endpoint-": every index up to one past the longest
\* list, a negative one, a signed one, and two that are no integer
EndpointSuffixes ==
    { Itoa(n) : n \in 0..(MaxEndpoints + 1) }
    \cup { <<"-","1">>, <<"+","1">>, <<"0","1">>, <<"x">>, <<>>, <<"1","x">> }

Under(sub, z) == sub \o Dot \o z

Subjects ==
    { s_web, s_db, s_mgmt,
      s_tcp \o Dot \o s_web, <<"_","T","c","P">> \o Dot \o s_web,
      s_tcp \o Dot \o s_db,
      s_foo \o Dot \o s_web,
      <<"E","n","d","p","o","i","n","t","-","0">> \o Dot \o s_web,
      <<"e","n","d","p","o","i","n","t">> \o Dot \o s_web,
      s_grpclb \o Dot \o s_tcp \o Dot \o s_web,
      s_grpclb \o Dot \o s_tcp \o Dot \o s_db,
      <<"_","G","r","p","c","l","b">> \o Dot \o <<"_","T","C","P">> \o Dot \o s_web,
      s_grpclb \o Dot \o s_foo \o Dot \o s_web,
      s_foo \o Dot \o s_tcp \o Dot \o s_web,
      s_foo \o Dot \o s_grpclb \o Dot \o s_tcp \o Dot \o s_web }
    \cup { s_endpoint \o e \o Dot \o s_web : e \in EndpointSuffixes }

\* the question names: the subjects under both zones, the apex, a name that
\* ends in a zone's characters off a label boundary, a name under no zone
QNames ==
    { Under(s, s_org) : s \in Subjects }
    \cup { Under(s_web, s_a_org), Under(s_tcp \o Dot \o s_web, s_a_org) }
    \cup { s_org, <<"x">> \o s_org, Under(s_web, <<"n","e","t",".">>) }

(* ------------------------------- messages ------------------------------ *)

RR_Header(name, rrtype) ==
    [name |-> name, rrtype |-> rrtype, class |-> ClassINET, ttl |-> 5]

\* soa(z): the synthetic SOA of zone z, its serial the clock reading now
\* (the clock values of the model are below 2^32, where uint32() changes
\* nothing)
soa(z, now) ==
    << [hdr     |-> RR_Header(z, TypeSOA),
        ns      |-> Join(s_ns, z),
        mbox    |-> Join(s_coredns, z),
        serial  |-> now,
        refresh |-> 14400,
        retry   |-> 3600,
        expire  |-> 604800,
        minttl  |-> 5] >>

\* m := new(dns.Msg); m.SetReply(r); m.Authoritative = true
NewReply(r) ==
    [question |-> r, rcode |-> RcodeSuccess, authoritative |-> TRUE,
     answer |-> <<>>, ns |-> <<>>, extra |-> <<>>]

\* m.Ns = soa(state.Zone); m.Rcode = dns.RcodeNameError
NameError(r, z, now) ==
    [NewReply(r) EXCEPT !.ns = soa(z, now), !.rcode = RcodeNameError]

\* m.Ns = soa(state.Zone), the response code left at success
NoData(r, z, now) ==
    [NewReply(r) EXCEPT !.ns = soa(z, now)]

RR_A(name, addr) == [hdr |-> RR_Header(name, TypeA), a |-> addr]

RR_AAAA(name, addr) == [hdr |-> RR_Header(name, TypeAAAA), aaaa |-> addr]

RR_SRV(name, port, target) ==
    [hdr |-> RR_Header(name, TypeSRV), priority |-> 100, weight |-> 100,
     port |-> port, target |-> target]

\* a variant of AddressAnswer that answers a family mismatch with a name error
AddressAnswer_MismatchNameError(r, z, addr, now) ==
    IF r.qtype = TypeA
    THEN IF To4IsNil(addr) THEN NameError(r, z, now)
         ELSE [NewReply(r) EXCEPT !.answer = <<RR_A(r.name, addr)>>]
    ELSE IF r.qtype = TypeAAAA
    THEN IF ~To4IsNil(addr) THEN NameError(r, z, now)
         ELSE [NewReply(r) EXCEPT !.answer = <<RR_AAAA(r.name, addr)>>]
    ELSE NoData(r, z, now)

\* a variant of AddressAnswer whose default case reports a name error
AddressAnswer_OtherTypeNameError(r, z, addr, now) ==
    IF r.qtype = TypeA
    THEN IF To4IsNil(addr) THEN NoData(r, z, now)
         ELSE [NewReply(r) EXCEPT !.answer = <<RR_A(r.name, addr)>>]
    ELSE IF r.qtype = TypeAAAA
    THEN IF ~To4IsNil(addr) THEN NoData(r, z, now)
         ELSE [NewReply(r) EXCEPT !.answer = <<RR_AAAA(r.name, addr)>>]
    ELSE NameError(r, z, now)

\* the A and AAAA cases of the two type switches: one record of the queried
\* type when the address is of its family, the synthetic SOA otherwise
AddressAnswer(r, z, addr, now) ==
    IF r.qtype = TypeA
    THEN IF To4IsNil(addr) THEN NoData(r, z, now)
         ELSE [NewReply(r) EXCEPT !.answer = <<RR_A(r.name, addr)>>]
    ELSE IF r.qtype = TypeAAAA
    THEN IF ~To4IsNil(addr) THEN NoData(r, z, now)
         ELSE [NewReply(r) EXCEPT !.answer = <<RR_AAAA(r.name, addr)>>]
    ELSE NoData(r, z, now)

\* a variant of SrvTarget that counts the endpoints from 1
SrvTarget_OneBased(i, c, z) == s_endpoint \o Itoa(i + 1) \o Dot \o c \o Dot \o z

\* fmt.Sprintf("endpoint-%d.%s.%s", i, cluster, state.Zone), i 0-based
SrvTarget(i, c, z) == s_endpoint \o Itoa(i) \o Dot \o c \o Dot \o z

\* the glue record of one endpoint: AAAA when To4() is nil, A otherwise
Glue(target, sa) ==
    IF To4IsNil(sa.addr) THEN RR_AAAA(target, sa.addr) ELSE RR_A(target, sa.addr)

\* the SRV case: one SRV record and one glue record per element of All
SrvAnswer(r, z, c, list) ==
    [NewReply(r) EXCEPT
        !.answer = [k \in 1..Len(list) |->
                        RR_SRV(r.name, list[k].port, SrvTarget(k - 1, c, z))],
        !.extra  = [k \in 1..Len(list) |->
                        Glue(SrvTarget(k - 1, c, z), list[k])]]

(* -------------------------------- state --------------------------------- *)

VARIABLES
    origins,    \* t.origins
    pc,         \* where the handler stands
    req,        \* the question: its name as sent (QName) and its type (QType)
    zone,       \* state.Zone
    cluster,    \* the local cluster of ServeDNS
    labels,     \* the local labels of ServeDNS
    sockaddr,   \* the local sockaddr of ServeDNS
    nr,         \* the local nr of serveEndpoint
    sockaddrs,  \* the list the last All call returned
    calls,      \* the provider calls of this query, in order
    written,    \* the messages handed to w.WriteMsg for this query
    prev        \* the query answered before this one, where it is recorded

vars == << origins, pc, req, zone, cluster, labels, sockaddr, nr, sockaddrs,
           calls, written, prev >>

NoReq == [name |-> <<>>, qtype |-> 0]

NoPrev == [req |-> NoReq, zone |-> <<>>, calls |-> <<>>, written |-> <<>>]

Init ==
    /\ origins \in OriginConfigs
    /\ pc = "idle"
    /\ req = NoReq
    /\ zone = <<>>
    /\ cluster = <<>>
    /\ labels = <<>>
    /\ sockaddr = Nil
    /\ nr = 0
    /\ sockaddrs = <<>>
    /\ calls = <<>>
    /\ written = <<>>
    /\ prev = NoPrev

\* one provider call: Select's two results, or All's list
SelectCall(c, r) == [op |-> "Select", cluster |-> c, sa |-> r.sa, ok |-> r.ok, list |-> <<>>]

AllCall(c, list) == [op |-> "All", cluster |-> c, sa |-> Nil, ok |-> TRUE, list |-> list]

\* w.WriteMsg(m); return 0, nil
WriteMsg(m) ==
    /\ written' = Append(written, m)
    /\ pc' = "done"

(* ------------------------------- ServeDNS ------------------------------- *)

\* a variant of MatchOrigin that falls back to the first origin
MatchOrigin_DefaultFirst(name, os) ==
    IF \E k \in 1..Len(os) : HasSuffix(name, os[k])
    THEN CHOOSE k \in 1..Len(os) :
            /\ HasSuffix(name, os[k])
            /\ \A j \in 1..(k - 1) : ~HasSuffix(name, os[j])
    ELSE 1

\* a variant of MatchOrigin that prefers the longest matching origin
MatchOrigin_Longest(name, os) ==
    IF \E k \in 1..Len(os) : HasSuffix(name, os[k])
    THEN CHOOSE k \in 1..Len(os) :
            /\ HasSuffix(name, os[k])
            /\ \A j \in 1..Len(os) :
                   HasSuffix(name, os[j]) => Len(os[j]) <= Len(os[k])
    ELSE 0

\* the origin the loop over t.origins stops at: the first that is a suffix
\* of the name; 0 when none is
MatchOrigin(name, os) ==
    IF \E k \in 1..Len(os) : HasSuffix(name, os[k])
    THEN CHOOSE k \in 1..Len(os) :
            /\ HasSuffix(name, os[k])
            /\ \A j \in 1..(k - 1) : ~HasSuffix(name, os[j])
    ELSE 0

\* a query arrives: the zone loop and the fresh reply, up to the first
\* provider call
Receive(q, ty) ==
    /\ pc = "idle"
    /\ LET k == MatchOrigin(Name(q), origins)
       IN  /\ cluster' = IF k = 0 THEN <<>> ELSE TrimZone(Name(q), origins[k])
           /\ zone' = IF k = 0 THEN <<>> ELSE origins[k]
    /\ req' = [name |-> q, qtype |-> ty]
    /\ labels' = <<>>
    /\ sockaddr' = Nil
    /\ nr' = 0
    /\ sockaddrs' = <<>>
    /\ calls' = <<>>
    /\ written' = <<>>
    /\ pc' = "select"
    /\ UNCHANGED <<origins, prev>>

\* a variant of Synthesize without the `sockaddr == nil` test
Synthesize_NoNilCheck(sa, now) ==
    IF req.qtype = TypeSRV
    THEN pc' = "srv" /\ UNCHANGED written
    ELSE IF sa = Nil THEN WriteMsg(NoData(req, zone, now))
    ELSE WriteMsg(AddressAnswer(req, zone, sa.addr, now))

\* a variant of Synthesize that answers a missing endpoint with a name error
Synthesize_NilIsNameError(sa, now) ==
    IF sa = Nil
    THEN WriteMsg(NameError(req, zone, now))
    ELSE IF req.qtype = TypeSRV
    THEN pc' = "srv" /\ UNCHANGED written
    ELSE WriteMsg(AddressAnswer(req, zone, sa.addr, now))

\* from `if sockaddr == nil` to the end of ServeDNS, the SRV case left to
\* the All call it starts with
Synthesize(sa, now) ==
    IF sa = Nil
    THEN WriteMsg(NoData(req, zone, now))
    ELSE IF req.qtype = TypeSRV
    THEN pc' = "srv" /\ UNCHANGED written
    ELSE WriteMsg(AddressAnswer(req, zone, sa.addr, now))

\* a variant of Fallback whose switch has no default case: a subject of
\* one label, of none or of four and more leaves the switch
Fallback_NoDefault(ls) ==
    IF Len(ls) = 2
    THEN IF ToLower(ls[1]) = s_tcp THEN "nodata"
         ELSE IF HasPrefix(ToLower(ls[1]), s_endpoint) THEN "endpoint"
         ELSE "next"
    ELSE IF Len(ls) = 3
    THEN IF ToLower(ls[1]) # s_grpclb \/ ToLower(ls[2]) # s_tcp THEN "nxdomain"
         ELSE "mgmt"
    ELSE "next"

\* the switch on len(labels) taken when the first Select reports no such
\* cluster, as the branch it ends in:
\*   "nodata"    _tcp.cluster, the empty non-terminal
\*   "endpoint"  endpoint-....cluster, the recheck and serveEndpoint
\*   "next"      any other two labels: no case body runs, the switch is left
\*   "mgmt"      _grpclb._tcp.cluster
\*   "nxdomain"  three labels of another form, and the default case
Fallback(ls) ==
    IF Len(ls) = 2
    THEN IF ToLower(ls[1]) = s_tcp THEN "nodata"
         ELSE IF HasPrefix(ToLower(ls[1]), s_endpoint) THEN "endpoint"
         ELSE "next"
    ELSE IF Len(ls) = 3
    THEN IF ToLower(ls[1]) # s_grpclb \/ ToLower(ls[2]) # s_tcp THEN "nxdomain"
         ELSE "mgmt"
    ELSE "nxdomain"

\* a variant of EmptyNonTerminal that sets the name-error code
EmptyNonTerminal_NameError(r, z, now) == NameError(r, z, now)

\* the message of the _tcp.cluster branch
EmptyNonTerminal(r, z, now) == NoData(r, z, now)

\* a variant of GrpclbCluster that selects from the cluster of the query
GrpclbCluster_Queried(ls) == ls[3]

\* the cluster the _grpclb._tcp branch selects from
GrpclbCluster(ls) == mgmt

\* a variant of EndpointCluster that takes the endpoint label
EndpointCluster_First(ls) == ls[1]

\* `cluster = labels[1]`: the cluster of an endpoint-N name is its second label
EndpointCluster(ls) == ls[2]

\* the first Select, on the whole subject, and what follows it up to the
\* next provider call or the written message
DirectSelect(r, now) ==
    /\ pc = "select"
    /\ calls' = Append(calls, SelectCall(cluster, r))
    /\ sockaddr' = r.sa
    /\ UNCHANGED <<origins, req, zone, nr, sockaddrs, prev>>
    /\ IF r.ok
       THEN /\ Synthesize(r.sa, now)
            /\ UNCHANGED <<cluster, labels>>
       ELSE LET ls == SplitDomainName(cluster)
                to == Fallback(ls)
            IN  /\ labels' = ls
                /\ CASE to = "nodata" ->
                        /\ WriteMsg(EmptyNonTerminal(req, zone, now))
                        /\ UNCHANGED cluster
                     [] to = "endpoint" ->
                        /\ cluster' = EndpointCluster(ls)
                        /\ pc' = "endpoint"
                        /\ UNCHANGED written
                     [] to = "next" ->
                        /\ Synthesize(r.sa, now)
                        /\ UNCHANGED cluster
                     [] to = "mgmt" ->
                        /\ cluster' = GrpclbCluster(ls)
                        /\ pc' = "mgmt"
                        /\ UNCHANGED written
                     [] to = "nxdomain" ->
                        /\ WriteMsg(NameError(req, zone, now))
                        /\ UNCHANGED cluster

\* the Select on the management cluster, its boolean discarded
MgmtSelect(r, now) ==
    /\ pc = "mgmt"
    /\ calls' = Append(calls, SelectCall(cluster, r))
    /\ sockaddr' = r.sa
    /\ Synthesize(r.sa, now)
    /\ UNCHANGED <<origins, req, zone, cluster, labels, nr, sockaddrs, prev>>

\* case dns.TypeSRV: the All call and the records built from its result
SrvAll(list) ==
    /\ pc = "srv"
    /\ calls' = Append(calls, AllCall(cluster, list))
    /\ sockaddrs' = list
    /\ WriteMsg(SrvAnswer(req, zone, cluster, list))
    /\ UNCHANGED <<origins, req, zone, cluster, labels, sockaddr, nr, prev>>

(* ----------------------------- serveEndpoint ---------------------------- *)

\* the number after the first "-" of the endpoint label: [err, val]
EndpointNumber(endpoint) ==
    LET i == Index(endpoint, "-")
    IN  IF i = -1 \/ i = Len(endpoint) THEN [err |-> TRUE, val |-> 0]
        ELSE Atoi(Slice(endpoint, i + 1, Len(endpoint)))

\* the recheck Select on the second label, and serveEndpoint up to its All
EndpointSelect(r, now) ==
    /\ pc = "endpoint"
    /\ calls' = Append(calls, SelectCall(cluster, r))
    /\ sockaddr' = r.sa
    /\ UNCHANGED <<origins, req, zone, cluster, labels, sockaddrs, prev>>
    /\ IF ~r.ok
       THEN WriteMsg(NameError(req, zone, now)) /\ UNCHANGED nr
       ELSE LET n == EndpointNumber(labels[1])
            IN  IF n.err
                THEN WriteMsg(NameError(req, zone, now)) /\ UNCHANGED nr
                ELSE /\ nr' = n.val
                     /\ pc' = "all"
                     /\ UNCHANGED written

\* `len(sockaddrs) < nr`: the test that sends an index to the name error
OutOfRange(list, n) == Len(list) < n

\* a variant of ElementAddress that always takes the last element
ElementAddress_Last(list, n) == list[Len(list)].addr

\* a variant of ElementAddress that always takes the first element
ElementAddress_First(list, n) == list[1].addr

\* sockaddrs[nr].Address(), for an index inside the list
ElementAddress(list, n) == list[n + 1].addr

\* serveEndpoint from its All call on: the range test, the list access
\* (a run-time panic when the index is outside the list) and the answer
EndpointAll(list, now) ==
    /\ pc = "all"
    /\ calls' = Append(calls, AllCall(cluster, list))
    /\ sockaddrs' = list
    /\ UNCHANGED <<origins, req, zone, cluster, labels, sockaddr, nr, prev>>
    /\ IF OutOfRange(list, nr)
       THEN WriteMsg(NameError(req, zone, now))
       ELSE IF nr < 0 \/ nr >= Len(list)
       THEN pc' = "panic" /\ UNCHANGED written
       ELSE WriteMsg(AddressAnswer(req, zone, ElementAddress(list, nr), now))

\* the handler's frame is gone: after `return 0, nil`, or after the panic
\* has unwound it; the server is ready for the next query
Forget ==
    /\ pc' = "idle"
    /\ req' = NoReq
    /\ zone' = <<>>
    /\ cluster' = <<>>
    /\ labels' = <<>>
    /\ sockaddr' = Nil
    /\ nr' = 0
    /\ sockaddrs' = <<>>
    /\ calls' = <<>>
    /\ written' = <<>>
    /\ UNCHANGED origins

Return ==
    /\ pc \in {"done", "panic"}
    /\ Forget
    /\ prev' = NoPrev

\* the same, with the finished query kept for comparison with the next
ReturnRecorded ==
    /\ pc \in {"done", "panic"}
    /\ Forget
    /\ prev' = [req |-> req, zone |-> zone, calls |-> calls, written |-> written]

(* ----------------------------- specification ---------------------------- *)

Next ==
    \/ \E q \in QNames, ty \in QTypes : Receive(q, ty)
    \/ \E r \in SelectResultsFor(cluster), now \in Times : DirectSelect(r, now)
    \/ \E r \in SelectResultsFor(cluster), now \in Times : MgmtSelect(r, now)
    \/ \E r \in SelectResultsFor(cluster), now \in Times : EndpointSelect(r, now)
    \/ \E list \in AllResults : SrvAll(list)
    \/ \E list \in AllResults, now \in Times : EndpointAll(list, now)
    \/ Return

Spec == Init /\ [][Next]_vars

\* the _grpclb._tcp names of QNames under the zone org.
GrpclbNames ==
    { Under(s_grpclb \o Dot \o s_tcp \o Dot \o c, s_org) : c \in {s_web, s_db} }

\* two _grpclb._tcp queries in a row, the first kept while the second runs
NextPair ==
    \/ \E q \in GrpclbNames, ty \in QTypes : Receive(q, ty)
    \/ \E r \in SelectResultsFor(cluster), now \in Times : DirectSelect(r, now)
    \/ \E r \in SelectResultsFor(cluster), now \in Times : MgmtSelect(r, now)
    \/ \E list \in AllResults : SrvAll(list)
    \/ ReturnRecorded

SpecPair == Init /\ [][NextPair]_vars

\* the names that are answered with SRV records of a one-label cluster
SrvNames ==
    { Under(s_web, s_org), Under(s_grpclb \o Dot \o s_tcp \o Dot \o s_web, s_org) }

\* the endpoint-N names of the cluster web and of the management cluster
TargetNames ==
    { Under(s_endpoint \o Itoa(i) \o Dot \o c, s_org) :
        i \in 0..MaxEndpoints, c \in {s_web, mgmt} }

\* an SRV query, kept when it returns, then an address query for an
\* endpoint-N name
NextRound ==
    \/ \E q \in SrvNames : prev = NoPrev /\ Receive(q, TypeSRV)
    \/ \E q \in TargetNames, ty \in {TypeA, TypeAAAA} :
           prev # NoPrev /\ Receive(q, ty)
    \/ \E r \in SelectResultsFor(cluster), now \in Times : DirectSelect(r, now)
    \/ \E r \in SelectResultsFor(cluster), now \in Times : MgmtSelect(r, now)
    \/ \E r \in SelectResultsFor(cluster), now \in Times : EndpointSelect(r, now)
    \/ \E list \in AllResults : SrvAll(list)
    \/ \E list \in AllResults, now \in Times : EndpointAll(list, now)
    \/ prev = NoPrev /\ ReturnRecorded

SpecRound == Init /\ [][NextRound]_vars

(* ======================= properties of the handler ===================== *)

\* the handler has ended: it returned, or a panic unwound it
Finished == pc \in {"done", "panic"}

\* the subject: the cluster identifier of the first Select
Subject == calls[1].cluster

SubjectLabels == SplitDomainName(Subject)

\* the question name is the subject, a dot, and the matched zone
UnderZone ==
    /\ calls # <<>>
    /\ zone # <<>>
    /\ Subject # <<>>
    /\ Name(req.name) = Subject \o Dot \o zone

\* the direct lookup of the subject reported no such cluster
DirectFailed == calls # <<>> /\ ~calls[1].ok

HasSoa(m) ==
    /\ Len(m.ns) = 1
    /\ m.ns[1].hdr.rrtype = TypeSOA
    /\ m.ns[1].hdr.name = zone

IsNameError(m) == m.rcode = RcodeNameError /\ m.answer = <<>> /\ HasSoa(m)

IsNoData(m) == m.rcode = RcodeSuccess /\ m.answer = <<>> /\ HasSoa(m)

WroteNameError == Len(written) = 1 /\ IsNameError(written[1])

WroteNoData == Len(written) = 1 /\ IsNoData(written[1])

\* the query is endpoint-<n>.<cluster> under the zone, the recheck found
\* the cluster, and All(cluster) returned calls[3].list
EndpointQuery(n) ==
    /\ UnderZone
    /\ Len(SubjectLabels) = 2
    /\ ToLower(SubjectLabels[1]) = s_endpoint \o Itoa(n)
    /\ Len(calls) = 3
    /\ calls[2].op = "Select" /\ calls[2].cluster = SubjectLabels[2] /\ calls[2].ok
    /\ calls[3].op = "All" /\ calls[3].cluster = SubjectLabels[2]

FamilyMatches(qtype, addr) ==
    \/ qtype = TypeA /\ addr.fam = 4
    \/ qtype = TypeAAAA /\ addr.fam = 6

FamilyMismatches(qtype, addr) ==
    \/ qtype = TypeA /\ addr.fam = 6
    \/ qtype = TypeAAAA /\ addr.fam = 4

\* the address carried by an A or AAAA record
RecordAddress(rr) == IF rr.hdr.rrtype = TypeA THEN rr.a ELSE rr.aaaa

(* C1: for every query name, query type and provider behaviour ServeDNS
   completes by writing exactly one response message: no path panics, none
   ends without a message, none writes two. *)
C1_ExactlyOneResponse ==
    /\ pc # "panic"
    /\ Len(written) <= 1
    /\ pc = "done" => Len(written) = 1

(* C2: for every query endpoint-N.cluster under a matched zone with the
   cluster known to the provider and N at or beyond the length of the list
   All(cluster) returns, the response is NXDOMAIN with an empty answer and
   the synthetic SOA. *)
C2_IndexAtOrBeyondLengthIsNameError ==
    \A n \in 0..(MaxEndpoints + 1) :
        (Finished /\ EndpointQuery(n) /\ n >= Len(calls[3].list))
            => WroteNameError

(* C3: for every A or AAAA query endpoint-N.cluster with N inside the list
   All(cluster) returns and element N of the queried family, the response is
   NOERROR with exactly one answer record, of the queried type and name,
   whose address is element N of that list. *)
C3_InRangeAnswersElementN ==
    \A n \in 0..(MaxEndpoints + 1) :
        (/\ Finished
         /\ EndpointQuery(n)
         /\ n < Len(calls[3].list)
         /\ FamilyMatches(req.qtype, calls[3].list[n + 1].addr))
            => /\ Len(written) = 1
               /\ written[1].rcode = RcodeSuccess
               /\ Len(written[1].answer) = 1
               /\ written[1].answer[1].hdr.rrtype = req.qtype
               /\ written[1].answer[1].hdr.name = req.name
               /\ RecordAddress(written[1].answer[1]) = calls[3].list[n + 1].addr
               /\ written[1].ns = <<>>

\* an endpoint-1 query answered with the second element of the list while
\* the recheck Select had returned another endpoint
C3_Witness ==
    /\ pc = "done"
    /\ EndpointQuery(1)
    /\ Len(calls[3].list) = 2
    /\ FamilyMatches(req.qtype, calls[3].list[2].addr)
    /\ calls[2].sa # Nil
    /\ calls[2].sa # calls[3].list[2]
    /\ Len(written) = 1
    /\ Len(written[1].answer) = 1

\* the subject has two labels, the first _tcp in any case
TcpQuery ==
    /\ UnderZone
    /\ Len(SubjectLabels) = 2
    /\ ToLower(SubjectLabels[1]) = s_tcp

(* C4, as claimed: for every query whose subject has exactly two labels with
   first label _tcp, for every query type and every provider content (the
   whole subject known to the provider or not), the response is NOERROR with
   an empty answer and the synthetic SOA. *)
C4_TcpAlwaysNoData ==
    (Finished /\ TcpQuery) => WroteNoData

(* C4, amended: the same whenever the direct lookup of the whole two-label
   subject yields no endpoint. *)
C4_TcpNoDataUnlessSubjectResolves ==
    (Finished /\ TcpQuery /\ calls[1].sa = Nil) => WroteNoData

\* a _TcP query, the subject unknown to the provider, answered NODATA
C4_Witness ==
    /\ pc = "done"
    /\ TcpQuery
    /\ req.name # Name(req.name)
    /\ DirectFailed
    /\ Len(calls) = 1
    /\ WroteNoData

(* C6: every response message written has exactly one of {non-empty answer
   section, synthetic SOA in the authority section}, and its response code
   is NOERROR or NXDOMAIN. *)
C6_AnswerXorSoa ==
    \A k \in 1..Len(written) :
        /\ (written[k].answer # <<>>) # HasSoa(written[k])
        /\ written[k].rcode \in {RcodeSuccess, RcodeNameError}

\* an SRV query got through the SRV case: on the direct path, or on the
\* _grpclb._tcp path
SrvSynthesis ==
    /\ Finished
    /\ req.qtype = TypeSRV
    /\ \/ Len(calls) = 2 /\ calls[1].ok /\ calls[1].sa # Nil /\ calls[2].op = "All"
       \/ /\ Len(calls) = 3
          /\ Len(SubjectLabels) = 3
          /\ calls[2].sa # Nil
          /\ calls[3].op = "All"

\* the endpoint label of an SRV target: "endpoint-" and a number
TargetIndex(target) ==
    LET l == SplitDomainName(target)[1]
    IN  IF HasPrefix(l, s_endpoint) THEN Atoi(Slice(l, Len(s_endpoint), Len(l)))
        ELSE [err |-> TRUE, val |-> 0]

(* C7: in every response to an SRV query that reaches synthesis with a found
   endpoint, the SRV records, the glue records and the list All(cluster)
   returned are equally many; the i-th glue record is owned by the i-th SRV
   record's target endpoint-<i>.<cluster>.<zone>, has the address and the
   family of element i, and the i-th SRV port is element i's port. *)
C7_SrvRecordsMatchAll ==
    SrvSynthesis =>
        LET list == calls[Len(calls)].list
            c    == calls[Len(calls)].cluster
            m    == written[1]
        IN  /\ Len(written) = 1
            /\ m.rcode = RcodeSuccess
            /\ Len(m.answer) = Len(list)
            /\ Len(m.extra) = Len(list)
            /\ \A k \in 1..Len(list) :
                /\ m.answer[k].hdr.rrtype = TypeSRV
                /\ m.answer[k].hdr.name = req.name
                /\ m.answer[k].port = list[k].port
                /\ m.answer[k].priority = 100 /\ m.answer[k].weight = 100
                /\ m.answer[k].target = m.extra[k].hdr.name
                /\ TargetIndex(m.answer[k].target) = [err |-> FALSE, val |-> k - 1]
                /\ m.answer[k].target = s_endpoint \o Itoa(k - 1) \o Dot \o c \o Dot \o zone
                /\ m.extra[k].hdr.rrtype = (IF list[k].addr.fam = 4 THEN TypeA ELSE TypeAAAA)
                /\ RecordAddress(m.extra[k]) = list[k].addr

\* an SRV answer of two records, one with A glue and one with AAAA glue
C7_Witness ==
    /\ SrvSynthesis
    /\ pc = "done"
    /\ Len(written) = 1
    /\ Len(written[1].answer) = 2
    /\ written[1].extra[1].hdr.rrtype = TypeAAAA
    /\ written[1].extra[2].hdr.rrtype = TypeA

\* the endpoint the query resolved to: the one Select returned on the
\* direct and the _grpclb._tcp paths, element n of All on the endpoint path
ResolvedDirect ==
    /\ Len(calls) = 1 /\ calls[1].ok /\ calls[1].sa # Nil

ResolvedMgmt ==
    /\ Len(calls) = 2 /\ ~calls[1].ok /\ Len(SubjectLabels) = 3 /\ calls[2].sa # Nil

ResolvedElement(n) ==
    /\ EndpointQuery(n) /\ n < Len(calls[3].list)

(* C8: whenever a query of type A or AAAA resolves to an endpoint of the
   other address family, on the direct path and on the endpoint-N path
   alike, the response is NOERROR with an empty answer and the synthetic
   SOA, never NXDOMAIN. *)
C8_FamilyMismatchIsNoData ==
    /\ (Finished /\ ResolvedDirect /\ FamilyMismatches(req.qtype, calls[1].sa.addr))
            => WroteNoData
    /\ (Finished /\ ResolvedMgmt /\ FamilyMismatches(req.qtype, calls[2].sa.addr))
            => WroteNoData
    /\ \A n \in 0..(MaxEndpoints + 1) :
        (/\ Finished
         /\ ResolvedElement(n)
         /\ FamilyMismatches(req.qtype, calls[3].list[n + 1].addr))
            => WroteNoData

\* a type A query for endpoint-0 whose element 0 is an IPv6 endpoint
C8_Witness ==
    /\ pc = "done"
    /\ req.qtype = TypeA
    /\ ResolvedElement(0)
    /\ calls[3].list[1].addr.fam = 6
    /\ WroteNoData

\* a type AAAA query answered from an IPv4 endpoint Select returned
C8_WitnessDirect ==
    /\ pc = "done"
    /\ req.qtype = TypeAAAA
    /\ ResolvedDirect
    /\ calls[1].sa.addr.fam = 4
    /\ WroteNoData

\* the label is endpoint-<integer>, in any case
IsEndpointInteger(l) ==
    /\ HasPrefix(ToLower(l), s_endpoint)
    /\ ~Atoi(Slice(l, Len(s_endpoint), Len(l))).err

(* C9: for every query whose subject has exactly two labels, the first
   neither _tcp nor of the form endpoint-<integer>, and whose direct lookup
   fails, the response is NXDOMAIN with an empty answer and the synthetic
   SOA. *)
C9_OtherTwoLabelsIsNameError ==
    (/\ Finished
     /\ UnderZone
     /\ DirectFailed
     /\ Len(SubjectLabels) = 2
     /\ ToLower(SubjectLabels[1]) # s_tcp
     /\ ~IsEndpointInteger(SubjectLabels[1]))
        => WroteNameError

\* the subject is neither of two labels nor a _grpclb._tcp name of three
InvalidGrammar ==
    /\ Len(SubjectLabels) # 2
    /\ ~(/\ Len(SubjectLabels) = 3
         /\ ToLower(SubjectLabels[1]) = s_grpclb
         /\ ToLower(SubjectLabels[2]) = s_tcp)

(* C10: when the direct lookup of the subject fails and the subject is not
   a two-label name and not a three-label name starting with _grpclb._tcp,
   the response is NXDOMAIN with an empty answer and the synthetic SOA, and
   no further provider call is made. *)
C10_InvalidGrammarIsNameError ==
    (Finished /\ DirectFailed /\ InvalidGrammar)
        => WroteNameError /\ Len(calls) = 1

\* a subject of four labels answered NXDOMAIN after the one Select
C10_Witness ==
    /\ pc = "done"
    /\ UnderZone
    /\ DirectFailed
    /\ Len(SubjectLabels) = 4
    /\ WroteNameError
    /\ Len(calls) = 1

\* a subject of one label, and one of three that is no _grpclb._tcp name
C10_WitnessOneLabel ==
    /\ pc = "done" /\ UnderZone /\ DirectFailed
    /\ Len(SubjectLabels) = 1 /\ WroteNameError

C10_WitnessThreeLabels ==
    /\ pc = "done" /\ UnderZone /\ DirectFailed
    /\ Len(SubjectLabels) = 3 /\ ToLower(SubjectLabels[2]) # s_tcp /\ WroteNameError

(* ------------------ two _grpclb._tcp queries compared ------------------ *)

\* the question is _grpclb._tcp.<c> under the zone
GrpclbQuery(r, z, c) ==
    Name(r.name) = s_grpclb \o Dot \o s_tcp \o Dot \o c \o Dot \o z

\* the previous query and this one are _grpclb._tcp queries of one type
\* under one zone for two different clusters, and both are answered
GrpclbPair ==
    /\ pc = "done"
    /\ Len(written) = 1
    /\ Len(prev.written) = 1
    /\ prev.zone = zone
    /\ prev.req.qtype = req.qtype
    /\ \E c1, c2 \in {s_web, s_db} :
        /\ c1 # c2
        /\ GrpclbQuery(prev.req, zone, c1)
        /\ GrpclbQuery(req, zone, c2)

\* one provider state behind both queries: the same call, made in both,
\* returned the same
SameProviderState ==
    \A i \in 1..Len(prev.calls), j \in 1..Len(calls) :
        (prev.calls[i].op = calls[j].op /\ prev.calls[i].cluster = calls[j].cluster)
            => prev.calls[i] = calls[j]

\* the record data of a message apart from the owner name of its answer
\* records; the serial of the synthetic SOA is the clock and is left out
RecordData(m) ==
    [rcode  |-> m.rcode,
     answer |-> [k \in 1..Len(m.answer) |-> [m.answer[k] EXCEPT !.hdr.name = <<>>]],
     ns     |-> [k \in 1..Len(m.ns) |-> [m.ns[k] EXCEPT !.serial = 0]],
     extra  |-> m.extra]

\* every SRV record of the message points at endpoint-<i>.<mgmt>.<zone>
TargetsInMgmt(m) ==
    \A k \in 1..Len(m.answer) :
        m.answer[k].hdr.rrtype = TypeSRV
            => m.answer[k].target = s_endpoint \o Itoa(k - 1) \o Dot \o mgmt \o Dot \o zone

\* every provider call after the direct lookup asks for the management cluster
OnlyMgmtAsked(cs) == \A k \in 2..Len(cs) : cs[k].cluster = mgmt

(* C5, as claimed: two _grpclb._tcp.<cluster> queries that differ only in
   <cluster>, of the same type and against the same provider state, get the
   same rcode and the same answer, authority and additional record data
   apart from the owner name of the answer records; the endpoints come from
   the management cluster alone and the SRV targets are named
   endpoint-<i>.<mgmt>.<zone>. *)
C5_GrpclbIgnoresCluster ==
    (GrpclbPair /\ SameProviderState)
        => /\ RecordData(prev.written[1]) = RecordData(written[1])
           /\ TargetsInMgmt(written[1])

(* C5, amended: the same for two such queries whose direct lookups of the
   whole three-label subject both report no such cluster. *)
C5_GrpclbIgnoresClusterAfterFailedLookup ==
    (/\ GrpclbPair
     /\ SameProviderState
     /\ ~prev.calls[1].ok
     /\ ~calls[1].ok)
        => /\ RecordData(prev.written[1]) = RecordData(written[1])
           /\ TargetsInMgmt(written[1])
           /\ OnlyMgmtAsked(prev.calls)
           /\ OnlyMgmtAsked(calls)

\* two SRV queries, for web and then for db, both answered with the two
\* endpoints of the management cluster
C5_Witness ==
    /\ GrpclbPair
    /\ SameProviderState
    /\ ~prev.calls[1].ok
    /\ ~calls[1].ok
    /\ req.qtype = TypeSRV
    /\ Len(written[1].answer) = 2
    /\ Len(prev.written[1].answer) = 2

(* ------------------------- provider calls counted ---------------------- *)

\* the subject is endpoint-....<cluster>: two labels, the first prefixed
EndpointForm ==
    /\ Len(SubjectLabels) = 2
    /\ HasPrefix(ToLower(SubjectLabels[1]), s_endpoint)

\* the subject is _grpclb._tcp.<cluster>
GrpclbForm ==
    /\ Len(SubjectLabels) = 3
    /\ ToLower(SubjectLabels[1]) = s_grpclb
    /\ ToLower(SubjectLabels[2]) = s_tcp

NumCalls(op) == Cardinality({k \in 1..Len(calls) : calls[k].op = op})

(* C11, as claimed: handling one query makes at most two calls to the
   assignment provider (Select and All counted together) on every path. *)
C11_AtMostTwoCalls == Len(calls) <= 2

(* C11, amended: handling one query makes at most three calls to the
   provider, at most two of them Select and at most one All: at most two on
   the direct path, at most three on the endpoint-N and the _grpclb._tcp
   fallback paths, and one on every other path, for every query type. *)
C11_AtMostThreeCalls ==
    /\ Len(calls) <= 3
    /\ NumCalls("Select") <= 2
    /\ NumCalls("All") <= 1
    /\ (calls # <<>> /\ calls[1].ok) => Len(calls) <= 2
    /\ (DirectFailed /\ ~EndpointForm /\ ~GrpclbForm) => Len(calls) = 1

\* an SRV query for _grpclb._tcp.<cluster> answered after three calls
C11_Witness ==
    /\ pc = "done"
    /\ req.qtype = TypeSRV
    /\ DirectFailed
    /\ GrpclbForm
    /\ Len(calls) = 3
    /\ calls[3].op = "All"
    /\ Len(written) = 1

\* an endpoint-N query answered after three calls
C11_WitnessEndpoint ==
    /\ pc = "done" /\ DirectFailed /\ EndpointForm /\ Len(calls) = 3 /\ Len(written) = 1

(* ------------------------- zone matching -------------------------------- *)

\* name lies in zone z: it is z, or it ends with z right after a label
\* separator
OnLabelBoundary(name, z) == name = z \/ HasSuffix(name, Dot \o z)

(* C12: a configured zone matches a query name only on a label boundary; a
   name that merely ends with the zone's characters is not matched to the
   zone, and no response carries that zone's SOA for it. *)
C12_ZoneMatchOnLabelBoundary ==
    (pc # "idle" /\ zone # <<>>) =>
        /\ OnLabelBoundary(Name(req.name), zone)
        /\ \A k \in 1..Len(written) :
               \A i \in 1..Len(written[k].ns) :
                   OnLabelBoundary(Name(req.name), written[k].ns[i].hdr.name)

(* ------------------------- endpoint-N, other types ---------------------- *)

\* the records of type t in the answer and additional sections of m
RecordsOfType(m, t) ==
    {k \in 1..Len(m.answer) : m.answer[k].hdr.rrtype = t}
        \cup {k \in 1..Len(m.extra) : m.extra[k].hdr.rrtype = t}

(* C13: on the endpoint-N path with the cluster found and N in range, a
   query of any type other than A or AAAA, SRV included, is answered NOERROR
   with an empty answer section, no additional records and the SOA in the
   authority section; no reply on the endpoint-N path holds an SRV record. *)
C13_EndpointOtherTypeIsNoData ==
    /\ \A n \in 0..MaxEndpoints :
           ( /\ Finished
             /\ EndpointQuery(n)
             /\ n < Len(calls[3].list)
             /\ req.qtype \notin {TypeA, TypeAAAA} ) =>
               /\ WroteNoData
               /\ written[1].extra = <<>>
    /\ (DirectFailed /\ EndpointForm) =>
           \A k \in 1..Len(written) : RecordsOfType(written[k], TypeSRV) = {}

\* an SRV query for endpoint-N, N in range, has been answered
C13_Witness ==
    \E n \in 0..MaxEndpoints :
        /\ pc = "done"
        /\ EndpointQuery(n)
        /\ n < Len(calls[3].list)
        /\ req.qtype = TypeSRV
        /\ Len(written) = 1

(* ------------------------- endpoint-N, the recheck ---------------------- *)

(* C14: for a two-label subject whose first label starts with endpoint-,
   once the direct lookup of the whole subject has failed the handler calls
   Select on the second label alone; when that call reports no cluster the
   reply is a name error with the SOA and All is never called, whatever
   follows endpoint-; index parsing and All happen only when it is found. *)
C14_EndpointRecheckBeforeResolution ==
    (DirectFailed /\ EndpointForm) =>
        /\ pc # "select"
        /\ pc = "endpoint" => Len(calls) = 1
        /\ pc # "endpoint" =>
               /\ Len(calls) >= 2
               /\ calls[2].op = "Select"
               /\ calls[2].cluster = SubjectLabels[2]
               /\ ~calls[2].ok =>
                      /\ pc = "done"
                      /\ Len(calls) = 2
                      /\ WroteNameError
               /\ (pc = "all" \/ Len(calls) = 3) =>
                      /\ calls[2].ok
                      /\ ~EndpointNumber(SubjectLabels[1]).err
               /\ Len(calls) = 3 =>
                      /\ calls[3].op = "All"
                      /\ calls[3].cluster = SubjectLabels[2]

\* the recheck failed for a name with a well-formed index: name error, no All
C14_Witness ==
    /\ pc = "done"
    /\ DirectFailed
    /\ EndpointForm
    /\ ~EndpointNumber(SubjectLabels[1]).err
    /\ Len(calls) = 2
    /\ ~calls[2].ok
    /\ WroteNameError

\* the recheck succeeded and All followed
C14_WitnessFound ==
    /\ DirectFailed /\ EndpointForm /\ Len(calls) = 3 /\ calls[2].ok

(* ------------------------- endpoint-N, malformed index ------------------ *)

\* the text after the first "-" of label l
SuffixOf(l) == Slice(l, Index(l, "-") + 1, Len(l))

\* s is one or more decimal digits and nothing else
IsDigitString(s) == s # <<>> /\ \A k \in 1..Len(s) : IsDigit(s[k])

\* endpoint-<suffix>.<cluster> whose direct lookup failed and whose cluster
\* the recheck found
EndpointKnownCluster ==
    /\ DirectFailed
    /\ EndpointForm
    /\ Len(calls) >= 2
    /\ calls[2].op = "Select" /\ calls[2].cluster = SubjectLabels[2] /\ calls[2].ok

(* C15: for endpoint-<suffix>.<cluster> with the cluster known to the
   provider, a suffix that is not a well-formed integer (empty, or holding a
   character that is no digit) is answered with a name error and the SOA,
   and All is not called. *)
C15_MalformedIndexIsNameError ==
    (EndpointKnownCluster /\ ~IsDigitString(SuffixOf(SubjectLabels[1]))) =>
        /\ pc = "done"
        /\ WroteNameError
        /\ NumCalls("All") = 0

(* ------------------------- _grpclb._tcp, management cluster missing ----- *)

\* _grpclb._tcp.<cluster> after a failed direct lookup, the Select on the
\* management cluster returning no endpoint
GrpclbNoEndpoint ==
    /\ DirectFailed
    /\ GrpclbForm
    /\ Len(calls) >= 2
    /\ calls[2].op = "Select" /\ calls[2].cluster = mgmt /\ calls[2].sa = Nil

(* C16: for a _grpclb._tcp.<cluster> query, when Select on the management
   cluster returns no endpoint the reply is, for every query type, NOERROR
   with an empty answer section and the SOA in the authority section; it is
   no name error, and All is not called. *)
C16_GrpclbWithoutMgmtIsNoData ==
    GrpclbNoEndpoint =>
        /\ pc = "done"
        /\ WroteNoData
        /\ written[1].rcode # RcodeNameError
        /\ NumCalls("All") = 0

\* an SRV query for _grpclb._tcp.<cluster>, the management cluster unknown
C16_Witness ==
    /\ pc = "done"
    /\ GrpclbNoEndpoint
    /\ ~calls[2].ok
    /\ req.qtype = TypeSRV
    /\ WroteNoData

\* the same for an address query
C16_WitnessAddress ==
    /\ pc = "done" /\ GrpclbNoEndpoint /\ req.qtype = TypeA /\ WroteNoData

(* ------------------------- several zones match -------------------------- *)

\* the positions of the configured zones the question name ends with
Matching == {k \in 1..Len(origins) : HasSuffix(Name(req.name), origins[k])}

\* the earliest of them in configuration order
FirstMatching == CHOOSE k \in Matching : \A j \in Matching : k <= j

(* C17: when several configured zones match the question name, the zone
   used for the cluster identifier, for the owner of the SOA and for the SRV
   targets is the first matching one in configuration order, even when a
   later zone is a longer match. *)
C17_FirstMatchingZoneWins ==
    (pc # "idle" /\ Cardinality(Matching) >= 2) =>
        LET z == origins[FirstMatching]
        IN  /\ zone = z
            /\ calls # <<>> =>
                   Name(req.name) =
                       IF Subject = <<>> THEN z ELSE Subject \o Dot \o z
            /\ \A k \in 1..Len(written) :
                   /\ \A i \in 1..Len(written[k].ns) :
                          written[k].ns[i].hdr.name = z
                   /\ \A i \in 1..Len(written[k].answer) :
                          written[k].answer[i].hdr.rrtype = TypeSRV =>
                              HasSuffix(written[k].answer[i].target,
                                        Dot \o calls[Len(calls)].cluster \o Dot \o z)

\* a reply carrying the SOA of the first zone while a later, longer zone
\* matches as well
C17_Witness ==
    /\ pc = "done"
    /\ Cardinality(Matching) = 2
    /\ \E j \in Matching : j > FirstMatching /\ Len(origins[j]) > Len(zone)
    /\ Len(written) = 1
    /\ Len(written[1].ns) = 1
    /\ written[1].ns[1].hdr.name = origins[FirstMatching]

\* SRV records answered under the first zone while a later, longer zone
\* matches as well
C17_WitnessSrv ==
    /\ pc = "done"
    /\ \E j \in Matching : j > FirstMatching /\ Len(origins[j]) > Len(zone)
    /\ Len(written) = 1
    /\ written[1].answer # <<>>
    /\ written[1].answer[1].hdr.rrtype = TypeSRV

(* ------------------------- endpoint-N, negative index ------------------- *)

\* s is a minus sign followed by one or more digits
IsNegativeInteger(s) == s # <<>> /\ s[1] = "-" /\ IsDigitString(Tail(s))

(* C19: the index used to select an element of the endpoint list is never
   negative: an endpoint label whose suffix parses as a negative integer is
   answered with a name error and the SOA, and no list access happens. *)
C19_NegativeIndexIsNameError ==
    ( /\ Finished
      /\ EndpointKnownCluster
      /\ IsNegativeInteger(SuffixOf(SubjectLabels[1])) ) =>
        /\ pc = "done"
        /\ WroteNameError

(* ------------------------- no zone matches ------------------------------ *)

(* C20: ServeDNS hands no query to the next handler: for a question name
   that matches no configured zone it still calls the provider, with the
   empty cluster identifier, and when that lookup fails it writes itself an
   authoritative name error whose SOA is owned by the empty zone name. *)
C20_UnmatchedNameIsAnsweredHere ==
    (pc # "idle" /\ Matching = {}) =>
        /\ zone = <<>>
        /\ pc \in {"select", "done"}
        /\ pc = "done" =>
               /\ Len(calls) = 1
               /\ calls[1].op = "Select"
               /\ calls[1].cluster = <<>>
               /\ ~calls[1].ok =>
                      /\ Len(written) = 1
                      /\ written[1].authoritative
                      /\ written[1].rcode = RcodeNameError
                      /\ written[1].answer = <<>>
                      /\ Len(written[1].ns) = 1
                      /\ written[1].ns[1].hdr.rrtype = TypeSOA
                      /\ written[1].ns[1].hdr.name = <<>>

\* a name outside every configured zone has been answered with a name error
C20_Witness ==
    /\ pc = "done"
    /\ Matching = {}
    /\ Len(calls) = 1
    /\ ~calls[1].ok
    /\ Len(written) = 1
    /\ written[1].rcode = RcodeNameError

(* ------------------------- SRV targets round-trip ----------------------- *)

\* the previous query was answered with SRV records, the k-th of them
\* pointing at the name now asked for, with the type of its glue record, and
\* one provider state is behind both queries
FollowsTarget(k) ==
    /\ prev.req.qtype = TypeSRV
    /\ k <= Len(prev.written[1].extra)
    /\ prev.written[1].answer[k].hdr.rrtype = TypeSRV
    /\ prev.written[1].extra[k].hdr.name = prev.written[1].answer[k].target
    /\ Name(req.name) = prev.written[1].answer[k].target
    /\ req.qtype = prev.written[1].extra[k].hdr.rrtype
    /\ SameProviderState

\* the reply is NOERROR with one record of the queried type and address a
AnsweredWith(a) ==
    /\ pc = "done"
    /\ Len(written) = 1
    /\ written[1].rcode = RcodeSuccess
    /\ Len(written[1].answer) = 1
    /\ written[1].answer[1].hdr.rrtype = req.qtype
    /\ written[1].answer[1].hdr.name = req.name
    /\ RecordAddress(written[1].answer[1]) = a

(* C18, as claimed: with the provider state unchanged, a query for the
   target of an SRV record of a cluster (simple or via _grpclb._tcp), with
   the type of its glue record, is answered NOERROR with exactly the address
   of the glue record. *)
C18_SrvTargetsRoundTrip ==
    (Finished /\ Len(prev.written) = 1) =>
        \A k \in 1..Len(prev.written[1].answer) :
            FollowsTarget(k) =>
                AnsweredWith(RecordAddress(prev.written[1].extra[k]))

(* C18, amended: the same for a following query whose direct lookup of the
   whole subject endpoint-<i>.<cluster> reports no such cluster. *)
C18_SrvTargetsRoundTripAfterFailedLookup ==
    (Finished /\ Len(prev.written) = 1 /\ DirectFailed) =>
        \A k \in 1..Len(prev.written[1].answer) :
            FollowsTarget(k) =>
                AnsweredWith(RecordAddress(prev.written[1].extra[k]))

\* the second target of an SRV answer, asked for and answered
C18_Witness ==
    /\ pc = "done"
    /\ Len(prev.written) = 1
    /\ Len(prev.written[1].answer) = 2
    /\ FollowsTarget(2)
    /\ DirectFailed
    /\ Len(calls) = 3
    /\ Len(written) = 1
    /\ written[1].answer # <<>>

\* the same for a target in the management cluster
C18_WitnessMgmt ==
    /\ pc = "done"
    /\ Len(prev.written) = 1
    /\ Len(prev.calls) = 3
    /\ \E k \in 1..Len(prev.written[1].answer) : FollowsTarget(k)
    /\ DirectFailed
    /\ Len(written) = 1
    /\ written[1].answer # <<>>

====
